---- MODULE Spec2Model ----
(***************************************************************************)
(* Model of the dataviz front end: the adaptive histogram rebinner and the *)
(* view-range selection of FeatureDetails.tsx, the dataset hook and the    *)
(* application shell with its tabs (useDataset.ts, App.tsx, CompareTab,    *)
(* TimeLensTab), the mock data service, request() of dataService.ts and    *)
(* the backend's sample manager behind POST /dataset/sample.               *)
(*                                                                         *)
(* JavaScript values are modelled as follows: arrays are sequences (index  *)
(* i of the code is index i + 1 here), objects are records, strings are    *)
(* strings, and a value that may be null is Null or Some(v).  A call       *)
(* evaluates to an outcome: the value it returns, or a thrown TypeError.   *)
(***************************************************************************)
EXTENDS Integers, Sequences, FiniteSets, TLC

VARIABLES
    call,           \* pure-function harness: the call being made
    ret,            \* pure-function harness: what the call returned
    feature,        \* FeatureDetails: the feature prop (a record or Null)
    binCount,       \* FeatureDetails: useState(DEFAULT_BIN_COUNT)
    viewRange,      \* FeatureDetails: useState(null), {start, end} or Null
    aggregatedBins, \* FeatureDetails: the aggregatedBins memo of the last render
    effectPending,  \* FeatureDetails: the [feature?.id] effect is scheduled
    thrown,         \* FeatureDetails: an event handler threw a TypeError
    dataset,        \* service: the dataset it holds, with each feature's statistics
    serverSample,   \* service: the size of the working sample the backend holds
    overview,       \* useDataset: where the fetchOverview() promise chain stands
    summary,        \* useDataset: useState<DatasetSummary | null>(null)
    activeFeature,  \* useDataset: useState<FeatureSummary | null>(null)
    tab,            \* useDataset: useState<TabId>('overview')
    isLoading,      \* useDataset: useState(true)
    error,          \* useDataset: useState<string | null>(null)
    activeTarget,   \* App: useState<string>('')
    compareConfig,  \* useDataset: useState<CompareConfig>({x: null, y: null, color: null, ...})
    compareSeries,  \* useDataset: useState<CompareSeriesResponse['series']>([])
    timeLens,       \* useDataset: useState<TimeLensResponse | null>(null)
    timeOrder,      \* useDataset: useState<string | null>(null)
    lensTarget,     \* TimeLensTab: useState(() => dataset.targets[0]), "" while unmounted
    lensWindow,     \* TimeLensTab: useState(ROLLING_WINDOWS[1]), 0 while unmounted
    lensOrder,      \* TimeLensTab: useState(orderField ?? DEFAULT_ORDER), "" while unmounted
    lensEffectPending, \* TimeLensTab: the effect that calls onRequest is scheduled
    pending,        \* the service calls whose promise has not settled yet
    rejected,       \* the kinds of service call whose promise has rejected
    compareSample,  \* history: the sample size in force when compareSeries was computed
    timeLensSample  \* history: the sample size in force when timeLens was computed

harnessVars == <<call, ret>>

detailsVars == <<feature, binCount, viewRange, aggregatedBins, effectPending, thrown>>

serviceVars == <<dataset, serverSample>>

hookVars == <<overview, summary, activeFeature, tab, isLoading, error>>

sessionVars == <<compareConfig, compareSeries, timeLens, timeOrder, lensTarget,
                 lensWindow, lensOrder, lensEffectPending, pending, rejected,
                 compareSample, timeLensSample>>

appVars == <<serviceVars, hookVars, activeTarget, sessionVars>>

vars == <<harnessVars, detailsVars, appVars>>

----------------------------------------------------------------------------
(* JavaScript values *)

Null == <<>>

Some(v) == <<v>>

\* The value of a non-null nullable.
Get(n) == n[1]

\* The outcome of a call that returns v.
Return(v) == [threw |-> FALSE, value |-> v]

\* The outcome of a call that throws a TypeError (a property of undefined read).
TypeError == [threw |-> TRUE, value |-> <<>>]

\* What ret holds before the call has returned.
Pending == Null

\* The U+2013 dash of the template literal that joins two labels.
EnDash == "~"

Min(a, b) == IF a <= b THEN a ELSE b

Max(a, b) == IF a >= b THEN a ELSE b

\* Math.round of the non-negative rational num / den: halves round up.
MathRound(num, den) == (2 * num + den) \div (2 * den)

\* Array.prototype.slice(start, endExclusive) for 0 <= start: both ends are
\* clamped to the array's length, and an inverted range gives [].
Slice(arr, start, endExclusive) ==
    LET e == Min(endExclusive, Len(arr))
    IN  IF start >= e THEN <<>> ELSE SubSeq(arr, start + 1, e)

RECURSIVE SumValues(_)
\* slice.reduce((acc, item) => acc + item.value, 0)
SumValues(bins) ==
    IF bins = <<>> THEN 0
    ELSE Head(bins).value + SumValues(Tail(bins))

----------------------------------------------------------------------------
(* FeatureDetails.tsx: constants *)

DEFAULT_BIN_COUNT == 24

BIN_OPTIONS == {12, 24, 36, 48}

\* Each specification exercises one part of the program; the variables of the
\* other parts keep these values.
HarnessIdle ==
    /\ call = [fn |-> "none"]
    /\ ret = Pending

DetailsIdle ==
    /\ feature = Null
    /\ binCount = DEFAULT_BIN_COUNT
    /\ viewRange = Null
    /\ aggregatedBins = <<>>
    /\ effectPending = FALSE
    /\ thrown = FALSE

\* The compare and time-lens state of the hook as useState initialises it,
\* with TimeLensTab unmounted and no service call under way.
SessionIdle ==
    /\ compareConfig = [x |-> Null, y |-> Null, color |-> Null, chartType |-> "distribution"]
    /\ compareSeries = <<>>
    /\ timeLens = Null
    /\ timeOrder = Null
    /\ lensTarget = ""
    /\ lensWindow = 0
    /\ lensOrder = ""
    /\ lensEffectPending = FALSE
    /\ pending = {}
    /\ rejected = {}
    /\ compareSample = Null
    /\ timeLensSample = Null

\* The hook and App before they have been mounted.
ClientIdle ==
    /\ overview = "idle"
    /\ summary = Null
    /\ activeFeature = Null
    /\ tab = "overview"
    /\ isLoading = TRUE
    /\ error = Null
    /\ activeTarget = ""
    /\ SessionIdle

\* The service before a dataset has been loaded into it.
ServiceIdle ==
    /\ dataset = <<>>
    /\ serverSample = 0

AppIdle ==
    /\ ServiceIdle
    /\ ClientIdle

----------------------------------------------------------------------------
(* FeatureDetails.tsx: clampRange *)

ClampEndNoFloor(start, rangeEnd, length) == Min(rangeEnd, length - 1)

\* const end = Math.max(start, Math.min(range.end, length - 1))
ClampEnd(start, rangeEnd, length) == Max(start, Min(rangeEnd, length - 1))

ClampStartNoCeiling(rangeStart, length) == Max(0, rangeStart)

\* const start = Math.max(0, Math.min(range.start, length - 1))
ClampStart(rangeStart, length) == Max(0, Min(rangeStart, length - 1))

clampRange(length, range) ==
    IF range = Null \/ length = 0
    THEN [start |-> 0, end |-> Max(length - 1, 0)]
    ELSE LET start == ClampStart(Get(range).start, length)
             end == ClampEnd(start, Get(range).end, length)
         IN  [start |-> start, end |-> end]

----------------------------------------------------------------------------
(* FeatureDetails.tsx: rebinHistogram *)

TargetUncapped(binsCount, length) == binsCount

\* const target = Math.min(binsCount, Math.max(bins.length, 1))
Target(binsCount, length) == Min(binsCount, Max(length, 1))

GroupEndOffByOne(bucket, target, length) ==
    IF bucket = target - 1 THEN length - 1
    ELSE MathRound((bucket + 1) * length, target)

GroupEndLastAbsorbs(bucket, target, length) ==
    IF bucket = target - 1 THEN length
    ELSE (bucket + 1) * (length \div target)

\* bucket === target - 1 ? bins.length : Math.round(((bucket + 1) * bins.length) / target)
GroupEnd(bucket, target, length) ==
    IF bucket = target - 1 THEN length
    ELSE MathRound((bucket + 1) * length, target)

\* first.label === last.label ? first.label : `${first.label}-${last.label}`
GroupLabel(first, last) ==
    IF first.label = last.label THEN first.label
    ELSE first.label \o EnDash \o last.label

GroupValueSkipFirst(slice) == MathRound(SumValues(Tail(slice)), 1)

\* Math.round(slice.reduce(...))
GroupValue(slice) == MathRound(SumValues(slice), 1)

StartIndexNoOffset(offset, startIdx) == startIdx

\* startIndex: offset + startIdx
StartIndex(offset, startIdx) == offset + startIdx

RECURSIVE RebinLoop(_, _, _, _, _, _)
\* The for loop of rebinHistogram from `bucket` on, with the result so far.
RebinLoop(bins, target, offset, bucket, previousEnd, result) ==
    IF ~(bucket < target) THEN Return(result)
    ELSE LET startIdx == previousEnd
             computed == GroupEnd(bucket, target, Len(bins))
             endIdxExclusive == IF computed <= startIdx THEN startIdx + 1 ELSE computed
             slice == Slice(bins, startIdx, endIdxExclusive)
         IN  IF slice = <<>> THEN TypeError
             ELSE RebinLoop(bins, target, offset, bucket + 1, endIdxExclusive,
                      Append(result,
                          [label |-> GroupLabel(slice[1], slice[Len(slice)]),
                           value |-> GroupValue(slice),
                           startIndex |-> StartIndex(offset, startIdx),
                           endIndex |-> offset + endIdxExclusive - 1]))

rebinHistogram(bins, binsCount, offset) ==
    IF Len(bins) = 0 THEN Return(<<>>)
    ELSE RebinLoop(bins, Target(binsCount, Len(bins)), offset, 0, 0, <<>>)

----------------------------------------------------------------------------
(* Pure-function harness: rebinHistogram on bounded inputs *)

MaxLen == 6

MaxValue == 1

MaxBinsCount == 7

MaxOffset == 2

\* The histograms of at most MaxLen bins with counts in 0..MaxValue; the bin at
\* original index i is labelled `${i}`, as a slice starting at offset is.
BinsFrom(offset) ==
    UNION { { [i \in 1..n |-> [label |-> ToString(offset + i - 1), value |-> v[i]]] :
                v \in [1..n -> 0..MaxValue] } : n \in 0..MaxLen }

InitRebin ==
    /\ \E offset \in 0..MaxOffset, binsCount \in 0..MaxBinsCount :
         \E bins \in BinsFrom(offset) :
           call = [fn |-> "rebinHistogram", bins |-> bins,
                   binsCount |-> binsCount, offset |-> offset]
    /\ ret = Pending
    /\ DetailsIdle
    /\ AppIdle

CallRebin ==
    /\ call.fn = "rebinHistogram"
    /\ ret = Pending
    /\ ret' = Some(rebinHistogram(call.bins, call.binsCount, call.offset))
    /\ UNCHANGED <<call, detailsVars, appVars>>

NextRebin == CallRebin

SpecRebin == InitRebin /\ [][NextRebin]_vars

----------------------------------------------------------------------------
(* Pure-function harness: clampRange on bounded inputs *)

MaxLength == 6

MaxRangeEnd == 8

RangeInputs ==
    {Null} \cup { Some([start |-> s, end |-> e]) : s, e \in (0 - 2)..MaxRangeEnd }

InitClamp ==
    /\ \E length \in 0..MaxLength, range \in RangeInputs :
         call = [fn |-> "clampRange", length |-> length, range |-> range]
    /\ ret = Pending
    /\ DetailsIdle
    /\ AppIdle

CallClamp ==
    /\ call.fn = "clampRange"
    /\ ret = Pending
    /\ ret' = Some(clampRange(call.length, call.range))
    /\ UNCHANGED <<call, detailsVars, appVars>>

NextClamp == CallClamp

SpecClamp == InitClamp /\ [][NextClamp]_vars

----------------------------------------------------------------------------
(* FeatureDetails.tsx: the component *)

HistLen == 14

SmallLen == 3

\* A fine-grained histogram of n bins labelled `${idx}`, as the service builds it.
Distribution(n, seed) ==
    [i \in 1..n |-> [label |-> ToString(i - 1), value |-> (i * i + seed) % 5]]

\* A histogram in which two bins carry the same label.
RepeatedLabels(n, seed) ==
    [i \in 1..n |-> [label |-> ToString((i - 1) \div 2), value |-> (i + seed) % 4]]

\* The FeatureSummary objects the parent passes as the feature prop: those of
\* one summary, and feature_1 as a later summary carries it (the same id,
\* another distribution).
FeatureObjects ==
    { [id |-> "feature_1", distribution |-> Distribution(HistLen, 0)],
      [id |-> "feature_1", distribution |-> Distribution(HistLen - SmallLen, 1)],
      [id |-> "feature_2", distribution |-> RepeatedLabels(SmallLen, 2)],
      [id |-> "feature_3", distribution |-> <<>>] }

FeatureProps == {Null} \cup { Some(f) : f \in FeatureObjects }

\* feature?.id
FeatureId(f) == IF f = Null THEN "undefined" ELSE Get(f).id

\* const originalBins = useMemo(() => feature?.distribution ?? [], ...)
OriginalBins(f) == IF f = Null THEN <<>> ELSE Get(f).distribution

originalBins == OriginalBins(feature)

\* The range clampRange gives for the current view.
effectiveRange == clampRange(Len(originalBins), viewRange)

\* The call the aggregatedBins memo makes for feature f, view range and bin count.
AggregatedOutcome(f, range, count) ==
    LET view == clampRange(Len(OriginalBins(f)), range)
        subset == Slice(OriginalBins(f), view.start, view.end + 1)
    IN  rebinHistogram(subset, count, view.start)

\* const aggregatedBins = useMemo(() => { ... }, [feature, originalBins, viewRange, binCount])
AggregatedBins(f, range, count) ==
    IF f = Null THEN <<>> ELSE AggregatedOutcome(f, range, count).value

\* A datazoom value: a number, a string (a category label) or undefined.
Num(n) == [type |-> "number", num |-> n, str |-> ""]

Str(s) == [type |-> "string", num |-> 0, str |-> s]

Undef == [type |-> "undefined", num |-> 0, str |-> ""]

\* The values the chart can hand to the handler as startValue or endValue
\* when `bins` are on display: an index (one below and one past the displayed
\* bins included), a label (one that no displayed bin carries included), or
\* nothing.
DataZoomValues(bins) ==
    { Num(i) : i \in (0 - 1)..Len(bins) }
    \cup { Str(bins[k].label) : k \in 1..Len(bins) }
    \cup { Str("none"), Undef }

\* The chart reports both ends of one zoom in the same form, or leaves one out.
SameForm(startValue, endValue) ==
    startValue.type = endValue.type \/ startValue = Undef \/ endValue = Undef

\* The event: the payload on the event itself, or as the first of a batch.
DataZoomEvent(batched, startValue, endValue) ==
    IF batched
    THEN [batch |-> Some([startValue |-> startValue, endValue |-> endValue]),
          startValue |-> Undef, endValue |-> Undef]
    ELSE [batch |-> Null, startValue |-> startValue, endValue |-> endValue]

\* const payload = event.batch?.[0] ?? event
Payload(event) ==
    IF event.batch # Null THEN Get(event.batch)
    ELSE [startValue |-> event.startValue, endValue |-> event.endValue]

RECURSIVE FindIndexFrom(_, _, _)
FindIndexFrom(bins, label, k) ==
    IF k > Len(bins) THEN 0 - 1
    ELSE IF bins[k].label = label THEN k - 1
    ELSE FindIndexFrom(bins, label, k + 1)

\* aggregatedBins.findIndex((bin) => bin.label === value): 0-based, -1 if none
FindIndex(bins, label) == FindIndexFrom(bins, label, 1)

\* typeof value === 'number' ? value : aggregatedBins.findIndex(...)
ResolveIndex(bins, value) ==
    IF value.type = "number" THEN value.num ELSE FindIndex(bins, value.str)

NextRangeDisplayed(bins, lower, upper) == [start |-> lower, end |-> upper]

\* { start: aggregatedBins[lower].startIndex, end: aggregatedBins[upper].endIndex }
\* for 0-based lower and upper that index displayed bins.
NextRange(bins, lower, upper) ==
    [start |-> bins[lower + 1].startIndex, end |-> bins[upper + 1].endIndex]

InitDetails ==
    /\ HarnessIdle
    /\ AppIdle
    /\ feature \in FeatureProps
    /\ binCount = DEFAULT_BIN_COUNT
    /\ viewRange = Null
    /\ aggregatedBins = AggregatedBins(feature, viewRange, binCount)
    /\ effectPending = TRUE
    /\ thrown = FALSE

\* The parent renders FeatureDetails with another feature prop (a feature
\* selected in the catalog, or Close); the [feature?.id] effect is scheduled
\* when the id differs.
SetFeature(f) ==
    /\ ~effectPending
    /\ f # feature
    /\ feature' = f
    /\ aggregatedBins' = AggregatedBins(f, viewRange, binCount)
    /\ effectPending' = (FeatureId(f) # FeatureId(feature))
    /\ UNCHANGED <<binCount, viewRange, thrown, harnessVars, appVars>>

RunEffectKeepsRange ==
    /\ effectPending
    /\ binCount' = DEFAULT_BIN_COUNT
    /\ aggregatedBins' = AggregatedBins(feature, viewRange, DEFAULT_BIN_COUNT)
    /\ effectPending' = FALSE
    /\ UNCHANGED <<feature, viewRange, thrown, harnessVars, appVars>>

\* useEffect(() => { setBinCount(DEFAULT_BIN_COUNT); setViewRange(null); }, [feature?.id])
RunEffect ==
    /\ effectPending
    /\ binCount' = DEFAULT_BIN_COUNT
    /\ viewRange' = Null
    /\ aggregatedBins' = AggregatedBins(feature, Null, DEFAULT_BIN_COUNT)
    /\ effectPending' = FALSE
    /\ UNCHANGED <<feature, thrown, harnessVars, appVars>>

\* onChange={(event) => setBinCount(Number(event.target.value))}
SetBinCount(option) ==
    /\ ~effectPending
    /\ feature # Null
    /\ binCount' = option
    /\ aggregatedBins' = AggregatedBins(feature, viewRange, option)
    /\ UNCHANGED <<feature, viewRange, effectPending, thrown, harnessVars, appVars>>

\* const resetView = useCallback(() => setViewRange(null), [])
resetView ==
    /\ ~effectPending
    /\ feature # Null
    /\ viewRange' = Null
    /\ aggregatedBins' = AggregatedBins(feature, Null, binCount)
    /\ UNCHANGED <<feature, binCount, effectPending, thrown, harnessVars, appVars>>

\* setViewRange((prev) => same range ? prev : nextRange), and the render that
\* follows when the state changed.
SetViewRange(nextRange) ==
    IF viewRange # Null /\ Get(viewRange) = nextRange
    THEN UNCHANGED <<viewRange, aggregatedBins>>
    ELSE /\ viewRange' = Some(nextRange)
         /\ aggregatedBins' = AggregatedBins(feature, Some(nextRange), binCount)

handleDataZoom(event) ==
    /\ ~effectPending
    /\ feature # Null
    /\ LET payload == Payload(event)
           startValue == payload.startValue
           endValue == payload.endValue
           startIndex == ResolveIndex(aggregatedBins, startValue)
           endIndex == ResolveIndex(aggregatedBins, endValue)
           lower == Min(startIndex, endIndex)
           upper == Max(startIndex, endIndex)
       IN  IF Len(aggregatedBins) = 0
           THEN UNCHANGED <<viewRange, aggregatedBins, thrown>>
           ELSE IF startValue = Undef \/ endValue = Undef
           THEN UNCHANGED <<viewRange, aggregatedBins, thrown>>
           ELSE IF startIndex < 0 \/ endIndex < 0
           THEN UNCHANGED <<viewRange, aggregatedBins, thrown>>
           ELSE IF upper >= Len(aggregatedBins)
           THEN /\ thrown' = TRUE
                /\ UNCHANGED <<viewRange, aggregatedBins>>
           ELSE /\ SetViewRange(NextRange(aggregatedBins, lower, upper))
                /\ UNCHANGED thrown
    /\ UNCHANGED <<feature, binCount, effectPending, harnessVars, appVars>>

NextDetails ==
    \/ \E f \in FeatureProps : SetFeature(f)
    \/ RunEffect
    \/ \E option \in BIN_OPTIONS : SetBinCount(option)
    \/ resetView
    \/ \E batched \in BOOLEAN :
         \E startValue \in DataZoomValues(aggregatedBins),
            endValue \in DataZoomValues(aggregatedBins) :
               /\ SameForm(startValue, endValue)
               /\ handleDataZoom(DataZoomEvent(batched, startValue, endValue))

SpecDetails == InitDetails /\ [][NextDetails]_vars

----------------------------------------------------------------------------
(* The dataset service: what it holds and the summary it answers with *)

Targets == <<"target_return", "target_drawdown">>

\* rows: 123_456
MOCK_ROWS == 123456

\* sampleSize: 5_000
MOCK_SAMPLE_SIZE == 5000

NoStats == [pearson |-> Null, spearman |-> Null, distance |-> Null]

\* Association statistics in hundredths.
Stats(pearson, spearman, distance) ==
    [pearson |-> Some(pearson), spearman |-> Some(spearman), distance |-> Some(distance)]

\* What the service can hold for one column: its type and its statistics
\* against each of Targets, in order.  A numeric column has statistics
\* (which may or may not differ between targets) unless its variance is zero;
\* a non-numeric column has none, or carries numbers all the same as the
\* mock service's columns do.
ColumnChoices ==
    { [type |-> "numeric", stats |-> <<Stats(20, 30, 40), Stats(70, 60, 50)>>],
      [type |-> "numeric", stats |-> <<Stats(70, 60, 50), Stats(70, 60, 50)>>],
      [type |-> "numeric", stats |-> <<NoStats, NoStats>>],
      [type |-> "categorical", stats |-> <<NoStats, NoStats>>],
      [type |-> "categorical", stats |-> <<Stats(10, 10, 10), Stats(10, 10, 10)>>],
      [type |-> "datetime", stats |-> <<NoStats, NoStats>> ] }

Datasets ==
    { <<[id |-> "feature_1", name |-> "Feature 1", type |-> a.type, stats |-> a.stats],
        [id |-> "feature_2", name |-> "Feature 2", type |-> b.type, stats |-> b.stats]>> :
        a, b \in ColumnChoices }

\* The index of target in Targets.
TargetIndex(target) == CHOOSE i \in 1..Len(Targets) : Targets[i] = target

\* The FeatureSummary of one column, its statistics taken against target.
FeatureSummaryOf(column, target) ==
    LET stats == column.stats[TargetIndex(target)]
    IN  [id |-> column.id, name |-> column.name, type |-> column.type,
         pearson |-> stats.pearson, spearman |-> stats.spearman,
         distance |-> stats.distance]

\* The target a summary's statistics are against: the first candidate target,
\* the one App selects by default.
SummaryTarget == Targets[1]

\* GET /dataset/summary: the DatasetSummary of the dataset held.
SummaryOf(columns, target) ==
    [name |-> "demo_dataset.parquet",
     rows |-> MOCK_ROWS,
     sampleSize |-> MOCK_SAMPLE_SIZE,
     lastUpdated |-> "load",
     targets |-> Targets,
     features |-> [i \in 1..Len(columns) |-> FeatureSummaryOf(columns[i], target)]]

RECURSIVE NumericColumns(_)
NumericColumns(columns) ==
    IF columns = <<>> THEN <<>>
    ELSE IF Head(columns).type = "numeric"
         THEN <<Head(columns)>> \o NumericColumns(Tail(columns))
         ELSE NumericColumns(Tail(columns))

\* correlate(target): one record per numeric column, its statistics against
\* target; a statistic that is not defined is "not applicable" (Null).
Correlate(columns, target) ==
    LET numeric == NumericColumns(columns)
    IN  [i \in 1..Len(numeric) |->
            LET stats == numeric[i].stats[TargetIndex(target)]
            IN  [feature |-> numeric[i].name, pearson |-> stats.pearson,
                 spearman |-> stats.spearman, distance |-> stats.distance]]

----------------------------------------------------------------------------
(* The mock data service: changeSampleSize *)

\* The floor of Math.max(500, ...)
MIN_SAMPLE == 500

\* const delta = direction === 'increase' ? 2_500 : -2_500
SAMPLE_STEP == 2500

\* const mockDataset: DatasetSummary = { ... }, built once when the module loads.
mockDataset == SummaryOf(dataset, SummaryTarget)

NewSampleNoFloor(current, delta) == current + delta

\* const newSample = Math.max(500, mockDataset.sampleSize + delta)
NewSample(current, delta) == Max(MIN_SAMPLE, current + delta)

UpdatedStamped(base, newSample) ==
    [base EXCEPT !.sampleSize = newSample, !.lastUpdated = ToString(Len(ret))]

\* const updated = { ...mockDataset, sampleSize: newSample }
Updated(base, newSample) == [base EXCEPT !.sampleSize = newSample]

\* The value the promise of changeSampleSize(delta) resolves with; mockDataset
\* itself is not assigned to.
changeSampleSize(delta) ==
    Return(Updated(mockDataset, NewSample(mockDataset.sampleSize, delta)))

----------------------------------------------------------------------------
(* Pure-function harness: sequences of changeSampleSize calls *)

MaxCalls == 3

BigDelta == 200000

\* The deltas asked for: none, the step of the header's buttons either way,
\* one that lands exactly on the floor, one row less, and large ones either way.
Deltas ==
    {0, SAMPLE_STEP, 0 - SAMPLE_STEP, MIN_SAMPLE - MOCK_SAMPLE_SIZE, 0 - 1,
     BigDelta, 0 - BigDelta}

DeltaSequences == UNION { [1..n -> Deltas] : n \in 0..MaxCalls }

\* A dataset of one numeric and one categorical column.
SampleDatasets ==
    { d \in Datasets : d[1].type = "numeric" /\ d[1].stats[1] # d[1].stats[2]
                       /\ d[2].type = "categorical" /\ d[2].stats[1] = NoStats }

\* ret holds the outcomes of the calls made so far, in order.
InitSample ==
    /\ \E deltas \in DeltaSequences :
         call = [fn |-> "changeSampleSize", deltas |-> deltas]
    /\ ret = <<>>
    /\ DetailsIdle
    /\ dataset \in SampleDatasets
    /\ serverSample = MOCK_SAMPLE_SIZE
    /\ ClientIdle

CallChangeSampleSize ==
    /\ call.fn = "changeSampleSize"
    /\ Len(ret) < Len(call.deltas)
    /\ ret' = Append(ret, changeSampleSize(call.deltas[Len(ret) + 1]))
    /\ UNCHANGED <<call, detailsVars, appVars>>

NextSample == CallChangeSampleSize

SpecSample == InitSample /\ [][NextSample]_vars

----------------------------------------------------------------------------
(* The mock data service: createSeries *)

\* A string | null value in a condition: null and '' are falsy.
Truthy(v) == v # Null /\ Get(v) # ""

\* config.chartType === 'scatter' && config.x && config.y
ScatterReady(config) ==
    config.chartType = "scatter" /\ Truthy(config.x) /\ Truthy(config.y)

DistributionReadyNeedsY(config) ==
    config.chartType = "distribution" /\ Truthy(config.x) /\ Truthy(config.y)

\* config.chartType === 'distribution' && config.x
DistributionReady(config) ==
    config.chartType = "distribution" /\ Truthy(config.x)

PointCountByColor(config, length) ==
    IF Truthy(config.color) THEN length - 1 ELSE length

\* Array.from({ length }, ...): the number of points of the series.  The
\* points themselves are Math.random() draws; a series is held here by its
\* name and the length of its data.
PointCount(config, length) == length

createSeries(config) ==
    IF ScatterReady(config)
    THEN <<[name |-> Get(config.x) \o " vs " \o Get(config.y),
            points |-> PointCount(config, 350)]>>
    ELSE IF DistributionReady(config)
    THEN <<[name |-> Get(config.x), points |-> PointCount(config, 50)]>>
    ELSE <<>>

----------------------------------------------------------------------------
(* Pure-function harness: createSeries on every small config *)

\* The ids of the columns of the datasets above.
FeatureIds == {"feature_1", "feature_2"}

\* A field of a CompareConfig: null, the empty string (the value of the
\* "Color by (optional)" option) or a feature id.
FieldInputs == {Null, Some("")} \cup { Some(id) : id \in FeatureIds }

CompareConfigs ==
    [x : FieldInputs, y : FieldInputs, color : FieldInputs,
     chartType : {"scatter", "distribution"}]

InitCompare ==
    /\ \E config \in CompareConfigs : call = [fn |-> "createSeries", config |-> config]
    /\ ret = Pending
    /\ DetailsIdle
    /\ AppIdle

CallCreateSeries ==
    /\ call.fn = "createSeries"
    /\ ret = Pending
    /\ ret' = Some(Return(createSeries(call.config)))
    /\ UNCHANGED <<call, detailsVars, appVars>>

NextCompare == CallCreateSeries

SpecCompare == InitCompare /\ [][NextCompare]_vars

----------------------------------------------------------------------------
(* The mock data service: fetchTimeLens *)

\* const range = Array.from({ length: 60 }, (_, idx) => idx + 1)
MOCK_POINTS == 60

\* range.map((idx) => ({ key: `${idx}`, ... })): the points of a series by
\* their keys; the values are Math.random() draws.
KeyedPoints(length) == [i \in 1..length |-> [key |-> ToString(i)]]

\* The value the promise of fetchTimeLens(...) resolves with.
fetchTimeLens(featureId, target, window, orderField) ==
    Return([correlation |-> [feature |-> featureId, target |-> target,
                             window |-> window, orderField |-> orderField,
                             values |-> KeyedPoints(MOCK_POINTS)],
            featureTrend |-> KeyedPoints(MOCK_POINTS)])

\* const ROLLING_WINDOWS = [7, 14, 30, 60]
ROLLING_WINDOWS == <<7, 14, 30, 60>>

\* const DEFAULT_ORDER = '__dataset__'
DEFAULT_ORDER == "__dataset__"

----------------------------------------------------------------------------
(* Pure-function harness: fetchTimeLens on small requests *)

\* The windows asked for: those TimeLensTab offers, the smallest, none,
\* a negative one, one more than the rows of the series and one more than
\* the sample.
WindowInputs ==
    { ROLLING_WINDOWS[i] : i \in 1..Len(ROLLING_WINDOWS) }
    \cup {0 - 1, 0, 1, MOCK_POINTS + 1, MOCK_SAMPLE_SIZE + 1}

InitTimeLens ==
    /\ \E featureId \in FeatureIds, i \in 1..Len(Targets), window \in WindowInputs,
          orderField \in {Null} \cup { Some(id) : id \in FeatureIds } :
         call = [fn |-> "fetchTimeLens", feature |-> featureId, target |-> Targets[i],
                 window |-> window, orderField |-> orderField]
    /\ ret = Pending
    /\ DetailsIdle
    /\ AppIdle

CallFetchTimeLens ==
    /\ call.fn = "fetchTimeLens"
    /\ ret = Pending
    /\ ret' = Some(fetchTimeLens(call.feature, call.target, call.window, call.orderField))
    /\ UNCHANGED <<call, detailsVars, appVars>>

NextTimeLens == CallFetchTimeLens

SpecTimeLens == InitTimeLens /\ [][NextTimeLens]_vars

----------------------------------------------------------------------------
(* dataService.ts: request *)

\* The outcome of a call that throws new Error(message), or of a promise
\* rejected with it.
ThrowError(message) == [threw |-> TRUE, value |-> message]

\* String(value) for a number or a string.
JSString(value) == IF value.type = "number" THEN ToString(value.num) ELSE value.str

\* A response body: one response.json() rejects for, or the JSON value it
\* resolves with: null, something that is not an object, or an object with or
\* without a detail key (detail Undef stands for a null or undefined detail).
Body(kind, hasDetail, detail) == [kind |-> kind, hasDetail |-> hasDetail, detail |-> detail]

\* typeof data === 'object' && data && 'detail' in data
CarriesDetail(body) == body.kind = "object" /\ body.hasDetail

\* let message = response.statusText; ... message = String(data.detail ?? message)
MessageOf(response) ==
    IF CarriesDetail(response.body)
    THEN IF response.body.detail = Undef THEN response.statusText
         ELSE JSString(response.body.detail)
    ELSE response.statusText

ErrorMessageNoFallback(message, status) == message

\* message || `Request failed with status ${response.status}`
ErrorMessage(message, status) ==
    IF message # "" THEN message
    ELSE "Request failed with status " \o ToString(status)

\* path.startsWith('http') ? path : `${API_BASE_URL}${path}`
Url(path) ==
    IF path.absolute THEN path.text ELSE "http://localhost:8000" \o path.text

\* The outcome of request(path) when fetch resolves with `response`.
request(path, response) ==
    IF ~response.ok
    THEN ThrowError(ErrorMessage(MessageOf(response), response.status))
    ELSE IF response.status = 204 THEN Return(Body("undefined", FALSE, Undef))
    ELSE IF response.body.kind = "invalid" THEN ThrowError("SyntaxError")
    ELSE Return(response.body)

----------------------------------------------------------------------------
(* Pure-function harness: request on small responses *)

\* A path, with whether it starts with 'http'.
Paths ==
    { [absolute |-> FALSE, text |-> "/dataset/summary"],
      [absolute |-> FALSE, text |-> "/compare"],
      [absolute |-> TRUE, text |-> "http://example.org/time-lens"] }

Bodies ==
    { Body("invalid", FALSE, Undef), Body("null", FALSE, Undef),
      Body("string", FALSE, Undef), Body("object", FALSE, Undef) }
    \cup { Body("object", TRUE, detail) :
             detail \in {Undef, Str(""), Str("window must be positive"), Num(0)} }

\* Statuses with response.ok (200..299) and without it.
Statuses == {200, 204, 304, 400, 422, 500}

Responses ==
    { [ok |-> status \in 200..299, status |-> status, statusText |-> statusText,
       body |-> body] :
        status \in Statuses, statusText \in {"", "Bad Request"}, body \in Bodies }

InitRequest ==
    /\ \E path \in Paths, response \in Responses :
         call = [fn |-> "request", path |-> path, url |-> Url(path), response |-> response]
    /\ ret = Pending
    /\ DetailsIdle
    /\ AppIdle

CallRequest ==
    /\ call.fn = "request"
    /\ ret = Pending
    /\ ret' = Some(request(call.path, call.response))
    /\ UNCHANGED <<call, detailsVars, appVars>>

NextRequest == CallRequest

SpecRequest == InitRequest /\ [][NextRequest]_vars

----------------------------------------------------------------------------
(* dataService.ts, useDataset.ts, App.tsx *)

TABS == {"overview", "compare", "targets", "timeline"}

\* value ?? 0
OrZero(value) == IF value = Null THEN 0 ELSE Get(value)

\* features.map((feature) => ({ feature: feature.name, pearson: feature.pearson ?? 0,
\*   spearman: feature.spearman ?? 0, distance: feature.distance ?? 0 }))
\* in fetchOverview and in App's correlations memo alike.
CorrelationRecords(features) ==
    [i \in 1..Len(features) |->
        [feature |-> features[i].name,
         pearson |-> OrZero(features[i].pearson),
         spearman |-> OrZero(features[i].spearman),
         distance |-> OrZero(features[i].distance)]]

\* const correlations = useMemo(() => summary?.features.map(...) ?? [], [summary])
correlations ==
    IF summary = Null THEN <<>> ELSE CorrelationRecords(Get(summary).features)

\* App renders the shell (header, catalog, tabs) once the load is over and
\* left a summary and no error.
ShellRendered == ~isLoading /\ summary # Null /\ error = Null

\* The effect of App that defaults the target is due.
DefaultTargetDue ==
    /\ summary # Null
    /\ Len(Get(summary).targets) > 0
    /\ activeTarget = ""

\* The effect of CompareTab that defaults x is due:
\* if (!config.x && features.length) onConfigChange({ ...config, x: features[0].id })
CompareDefaultDue ==
    /\ ShellRendered
    /\ tab = "compare"
    /\ ~Truthy(compareConfig.x)
    /\ Len(Get(summary).features) > 0

\* An effect is due: it runs before the user can act again.
EffectDue == DefaultTargetDue \/ CompareDefaultDue \/ lensEffectPending

\* activeTarget={activeTarget || summary.targets[0]}
ShownTarget == IF activeTarget # "" THEN activeTarget ELSE Get(summary).targets[1]

InitApp ==
    /\ HarnessIdle
    /\ DetailsIdle
    /\ dataset \in Datasets
    /\ serverSample = MOCK_SAMPLE_SIZE
    /\ overview = "pending"
    /\ summary = Null
    /\ activeFeature = Null
    /\ tab = "overview"
    /\ isLoading = TRUE
    /\ error = Null
    /\ activeTarget = ""
    /\ SessionIdle

\* .then(({ dataset }) => { setSummary(dataset); setActiveFeature(dataset.features[0]); })
\* once request('/dataset/summary') has resolved.
OverviewThen ==
    /\ overview = "pending"
    /\ LET answer == SummaryOf(dataset, SummaryTarget)
       IN  /\ summary' = Some(answer)
           /\ activeFeature' = Some(answer.features[1])
    /\ overview' = "settled"
    /\ UNCHANGED <<tab, isLoading, error, activeTarget, serviceVars,
                   harnessVars, detailsVars, sessionVars>>

OverviewCatchSilent ==
    /\ overview = "pending"
    /\ overview' = "settled"
    /\ UNCHANGED <<summary, activeFeature, tab, isLoading, error, activeTarget,
                   serviceVars, harnessVars, detailsVars, sessionVars>>

\* .catch(() => setError('Unable to load dataset overview')) once the request
\* has rejected (no connection, or a response that is not ok).
OverviewCatch ==
    /\ overview = "pending"
    /\ error' = Some("Unable to load dataset overview")
    /\ overview' = "settled"
    /\ UNCHANGED <<summary, activeFeature, tab, isLoading, activeTarget,
                   serviceVars, harnessVars, detailsVars, sessionVars>>

\* .finally(() => setIsLoading(false))
OverviewFinally ==
    /\ overview = "settled"
    /\ isLoading' = FALSE
    /\ overview' = "done"
    /\ UNCHANGED <<summary, activeFeature, tab, error, activeTarget,
                   serviceVars, harnessVars, detailsVars, sessionVars>>

\* useEffect(() => { if (summary && summary.targets.length && !activeTarget)
\*   setActiveTarget(summary.targets[0]); }, [summary, activeTarget])
DefaultTarget ==
    /\ DefaultTargetDue
    /\ activeTarget' = Get(summary).targets[1]
    /\ UNCHANGED <<hookVars, serviceVars, harnessVars, detailsVars, sessionVars>>

\* onClick={() => setTab(item.id)}, and the render that follows: renderTab
\* mounts the tab's component, and TimeLensTab's state starts from its
\* useState initialisers with its effects scheduled.
SetTab(id) ==
    /\ ShellRendered
    /\ ~EffectDue
    /\ tab' = id
    /\ IF id = "timeline" /\ tab # "timeline"
       THEN /\ lensTarget' = Get(summary).targets[1]
            /\ lensWindow' = ROLLING_WINDOWS[2]
            /\ lensOrder' = (IF timeOrder = Null THEN DEFAULT_ORDER ELSE Get(timeOrder))
            /\ lensEffectPending' = TRUE
       ELSE IF id # "timeline" /\ tab = "timeline"
       THEN /\ lensTarget' = ""
            /\ lensWindow' = 0
            /\ lensOrder' = ""
            /\ lensEffectPending' = FALSE
       ELSE UNCHANGED <<lensTarget, lensWindow, lensOrder, lensEffectPending>>
    /\ UNCHANGED <<overview, summary, activeFeature, isLoading, error,
                   activeTarget, serviceVars, harnessVars, detailsVars, rejected,
                   compareConfig, compareSeries, timeLens, timeOrder, pending,
                   compareSample, timeLensSample>>

\* onSelect={(feature) => setActiveFeature(feature)} in the catalog, and
\* onClose={() => setActiveFeature(null)} in the details (f = Null).
SetActiveFeature(f) ==
    /\ ShellRendered
    /\ ~EffectDue
    /\ f = Null => activeFeature # Null
    /\ activeFeature' = f
    /\ lensEffectPending' = (tab = "timeline" /\ f # activeFeature)
    /\ UNCHANGED <<overview, summary, tab, isLoading, error, activeTarget,
                   serviceVars, harnessVars, detailsVars, rejected,
                   compareConfig, compareSeries, timeLens, timeOrder, lensTarget,
                   lensWindow, lensOrder, pending, compareSample, timeLensSample>>

\* onTargetChange={(value) => setActiveTarget(value)}: the select of the Targets tab.
SetActiveTarget(target) ==
    /\ ShellRendered
    /\ ~EffectDue
    /\ tab = "targets"
    /\ activeTarget' = target
    /\ UNCHANGED <<hookVars, serviceVars, harnessVars, detailsVars, sessionVars>>

\* The tabs opened under SpecApp: those that show the summary.
SummaryTabs == {"overview", "targets"}

NextApp ==
    \/ OverviewThen
    \/ OverviewCatch
    \/ OverviewFinally
    \/ DefaultTarget
    \/ \E id \in SummaryTabs : SetTab(id)
    \/ \E f \in {Null} \cup { Some(Get(summary).features[i]) :
                    i \in 1..(IF summary = Null THEN 0 ELSE Len(Get(summary).features)) } :
          SetActiveFeature(f)
    \/ \E target \in { Targets[i] : i \in 1..Len(Targets) } : SetActiveTarget(target)

SpecApp == InitApp /\ [][NextApp]_vars

----------------------------------------------------------------------------
(* useDataset.ts, CompareTab, TimeLensTab, AppHeader: the service calls *)

MaxInFlight == 2

\* A service call whose promise has not settled: a changeSampleSize(delta), a
\* fetchCompare(config), or a fetchTimeLens(...) with the sample size in force
\* when it was made (fetchTimeLens builds its answer during the call).
NoConfig == [x |-> Null, y |-> Null, color |-> Null, chartType |-> ""]

NoLens == [feature |-> "", target |-> "", window |-> 0, orderField |-> Null]

SampleCall(delta) ==
    [kind |-> "sample", delta |-> delta, config |-> NoConfig, lens |-> NoLens, sample |-> 0]

CompareCall(config) ==
    [kind |-> "compare", delta |-> 0, config |-> config, lens |-> NoLens, sample |-> 0]

TimeLensCall(lens, sample) ==
    [kind |-> "timeLens", delta |-> 0, config |-> NoConfig, lens |-> lens, sample |-> sample]

\* One more call can be under way.
CanCall == Cardinality(pending) < MaxInFlight

\* refreshCompare: setCompareConfig(config); fetchCompare(config).then(...)
refreshCompare(config) ==
    /\ CanCall
    /\ compareConfig' = config
    /\ pending' = pending \cup {CompareCall(config)}
    /\ UNCHANGED <<compareSeries, compareSample>>

\* The effect of CompareTab, when config.x is unset.
CompareDefault ==
    /\ CompareDefaultDue
    /\ refreshCompare([compareConfig EXCEPT !.x = Some(Get(summary).features[1].id)])
    /\ UNCHANGED <<hookVars, activeTarget, serviceVars, harnessVars, detailsVars, rejected,
                   timeLens, timeOrder, lensTarget, lensWindow, lensOrder,
                   lensEffectPending, timeLensSample>>

\* The value a select shows for a string | null field: value={config.x ?? ''}
Shown(v) == IF v = Null THEN "" ELSE Get(v)

\* The user can act on CompareTab.
CompareTabReady == ShellRendered /\ ~EffectDue /\ tab = "compare"

\* onChange={(event) => onConfigChange({ ...config, chartType: event.target.value })}
SetChartType(chartType) ==
    /\ CompareTabReady
    /\ chartType # compareConfig.chartType
    /\ refreshCompare([compareConfig EXCEPT !.chartType = chartType])
    /\ UNCHANGED <<hookVars, activeTarget, serviceVars, harnessVars, detailsVars, rejected,
                   timeLens, timeOrder, lensTarget, lensWindow, lensOrder,
                   lensEffectPending, timeLensSample>>

\* onChange={(event) => onConfigChange({ ...config, x: event.target.value })}
SetX(id) ==
    /\ CompareTabReady
    /\ id # Shown(compareConfig.x)
    /\ refreshCompare([compareConfig EXCEPT !.x = Some(id)])
    /\ UNCHANGED <<hookVars, activeTarget, serviceVars, harnessVars, detailsVars, rejected,
                   timeLens, timeOrder, lensTarget, lensWindow, lensOrder,
                   lensEffectPending, timeLensSample>>

\* onChange={(event) => onConfigChange({ ...config, y: event.target.value })}:
\* the select is rendered for a scatter chart only.
SetY(id) ==
    /\ CompareTabReady
    /\ compareConfig.chartType = "scatter"
    /\ id # Shown(compareConfig.y)
    /\ refreshCompare([compareConfig EXCEPT !.y = Some(id)])
    /\ UNCHANGED <<hookVars, activeTarget, serviceVars, harnessVars, detailsVars, rejected,
                   timeLens, timeOrder, lensTarget, lensWindow, lensOrder,
                   lensEffectPending, timeLensSample>>

\* onChange={(event) => onConfigChange({ ...config, color: event.target.value })}:
\* the option "Color by (optional)" has the value ''.
SetColor(value) ==
    /\ CompareTabReady
    /\ value # Shown(compareConfig.color)
    /\ refreshCompare([compareConfig EXCEPT !.color = Some(value)])
    /\ UNCHANGED <<hookVars, activeTarget, serviceVars, harnessVars, detailsVars, rejected,
                   timeLens, timeOrder, lensTarget, lensWindow, lensOrder,
                   lensEffectPending, timeLensSample>>

\* setTimeout(() => resolve({ config, series: createSeries(config) }), 110) and
\* .then((response) => setCompareSeries(response.series))
CompareThen(c) ==
    /\ c \in pending
    /\ c.kind = "compare"
    /\ compareSeries' = createSeries(c.config)
    /\ compareSample' = (IF summary = Null THEN Null ELSE Some(Get(summary).sampleSize))
    /\ pending' = pending \ {c}
    /\ UNCHANGED <<hookVars, activeTarget, serviceVars, harnessVars, detailsVars, rejected,
                   compareConfig, timeLens, timeOrder, lensTarget, lensWindow,
                   lensOrder, lensEffectPending, timeLensSample>>

\* loadTimeLens: setTimeOrder(orderField); fetchTimeLens(...).then(...)
loadTimeLens(featureId, target, window, orderField) ==
    /\ CanCall
    /\ timeOrder' = orderField
    /\ pending' = pending \cup
         {TimeLensCall([feature |-> featureId, target |-> target, window |-> window,
                        orderField |-> orderField],
                       Get(summary).sampleSize)}

\* useEffect(() => { if (feature) onRequest(feature.id, target, window,
\*   order === DEFAULT_ORDER ? null : order); }, [feature, target, window, order, onRequest])
\* The other effect of TimeLensTab, setOrder(orderField ?? DEFAULT_ORDER), sets
\* the order to the value it has: timeOrder is only set from it.
LensEffect ==
    /\ lensEffectPending
    /\ IF activeFeature # Null
       THEN loadTimeLens(Get(activeFeature).id, lensTarget, lensWindow,
                         IF lensOrder = DEFAULT_ORDER THEN Null ELSE Some(lensOrder))
       ELSE UNCHANGED <<timeOrder, pending>>
    /\ lensEffectPending' = FALSE
    /\ UNCHANGED <<hookVars, activeTarget, serviceVars, harnessVars, detailsVars, rejected,
                   compareConfig, compareSeries, timeLens, lensTarget, lensWindow,
                   lensOrder, compareSample, timeLensSample>>

\* The user can act on TimeLensTab: it renders its selects when a feature is
\* inspected.
LensTabReady == ShellRendered /\ ~EffectDue /\ tab = "timeline" /\ activeFeature # Null

\* onChange={(event) => setTarget(event.target.value)}
SetLensTarget(target) ==
    /\ LensTabReady
    /\ target # lensTarget
    /\ lensTarget' = target
    /\ lensEffectPending' = TRUE
    /\ UNCHANGED <<hookVars, activeTarget, serviceVars, harnessVars, detailsVars, rejected,
                   compareConfig, compareSeries, timeLens, timeOrder, lensWindow,
                   lensOrder, pending, compareSample, timeLensSample>>

\* onChange={(event) => setWindow(Number(event.target.value))}
SetLensWindow(window) ==
    /\ LensTabReady
    /\ window # lensWindow
    /\ lensWindow' = window
    /\ lensEffectPending' = TRUE
    /\ UNCHANGED <<hookVars, activeTarget, serviceVars, harnessVars, detailsVars, rejected,
                   compareConfig, compareSeries, timeLens, timeOrder, lensTarget,
                   lensOrder, pending, compareSample, timeLensSample>>

\* onChange={(event) => setOrder(event.target.value)}
SetLensOrder(order) ==
    /\ LensTabReady
    /\ order # lensOrder
    /\ lensOrder' = order
    /\ lensEffectPending' = TRUE
    /\ UNCHANGED <<hookVars, activeTarget, serviceVars, harnessVars, detailsVars, rejected,
                   compareConfig, compareSeries, timeLens, timeOrder, lensTarget,
                   lensWindow, pending, compareSample, timeLensSample>>

\* .then((response) => setTimeLens(response))
TimeLensThen(c) ==
    /\ c \in pending
    /\ c.kind = "timeLens"
    /\ timeLens' = Some(fetchTimeLens(c.lens.feature, c.lens.target, c.lens.window,
                                      c.lens.orderField).value)
    /\ timeLensSample' = Some(c.sample)
    /\ pending' = pending \ {c}
    /\ UNCHANGED <<hookVars, activeTarget, serviceVars, harnessVars, detailsVars, rejected,
                   compareConfig, compareSeries, timeOrder, lensTarget, lensWindow,
                   lensOrder, lensEffectPending, compareSample>>

\* onClick={() => onSampleChange('increase')} and ('decrease'): adjustSample
adjustSample(direction) ==
    /\ ShellRendered
    /\ ~EffectDue
    /\ summary # Null
    /\ CanCall
    /\ pending' = pending \cup
         {SampleCall(IF direction = "increase" THEN SAMPLE_STEP ELSE 0 - SAMPLE_STEP)}
    /\ UNCHANGED <<hookVars, activeTarget, serviceVars, harnessVars, detailsVars, rejected,
                   compareConfig, compareSeries, timeLens, timeOrder, lensTarget,
                   lensWindow, lensOrder, lensEffectPending, compareSample,
                   timeLensSample>>

\* setTimeout(() => { ...; resolve(updated); }, 90) and
\* .then((updated) => setSummary(updated))
SampleThen(c) ==
    /\ c \in pending
    /\ c.kind = "sample"
    /\ summary' = Some(changeSampleSize(c.delta).value)
    /\ pending' = pending \ {c}
    /\ UNCHANGED <<overview, activeFeature, tab, isLoading, error, activeTarget,
                   serviceVars, harnessVars, detailsVars, rejected,
                   compareConfig, compareSeries, timeLens, timeOrder, lensTarget,
                   lensWindow, lensOrder, lensEffectPending, compareSample,
                   timeLensSample>>

\* The orders TimeLensTab offers: dataset order, or sorted by a feature.
OrderOptions ==
    {DEFAULT_ORDER} \cup
    { Get(summary).features[i].id :
        i \in 1..(IF summary = Null THEN 0 ELSE Len(Get(summary).features)) }

\* The features the catalog offers, and Close.
FeatureChoices ==
    {Null} \cup { Some(Get(summary).features[i]) :
                    i \in 1..(IF summary = Null THEN 0 ELSE Len(Get(summary).features)) }

\* The application on one dataset, from the mount of App on.
InitSession ==
    /\ HarnessIdle
    /\ DetailsIdle
    /\ dataset \in SampleDatasets
    /\ serverSample = MOCK_SAMPLE_SIZE
    /\ overview = "pending"
    /\ summary = Null
    /\ activeFeature = Null
    /\ tab = "overview"
    /\ isLoading = TRUE
    /\ error = Null
    /\ activeTarget = ""
    /\ SessionIdle

\* The overview load and the default target.
NextLoad ==
    \/ OverviewThen
    \/ OverviewCatch
    \/ OverviewFinally
    \/ DefaultTarget

\* SpecSession: the user opens any tab, inspects features and changes the
\* sample size; the selects of the Compare and Time lens tabs are left at the
\* values the components give them.
NextSession ==
    \/ NextLoad
    \/ \E id \in TABS : SetTab(id)
    \/ \E f \in FeatureChoices : SetActiveFeature(f)
    \/ CompareDefault
    \/ LensEffect
    \/ \E direction \in {"increase", "decrease"} : adjustSample(direction)
    \/ \E c \in pending : CompareThen(c)
    \/ \E c \in pending : TimeLensThen(c)
    \/ \E c \in pending : SampleThen(c)

SpecSession == InitSession /\ [][NextSession]_vars

\* The tabs opened under SpecCompareTab.
CompareTabs == {"overview", "compare"}

\* SpecCompareTab: the user works with the selects of the Compare tab.
NextCompareTab ==
    \/ NextLoad
    \/ \E id \in CompareTabs : SetTab(id)
    \/ CompareDefault
    \/ \E chartType \in {"scatter", "distribution"} : SetChartType(chartType)
    \/ \E id \in FeatureIds : SetX(id)
    \/ \E id \in FeatureIds : SetY(id)
    \/ \E value \in {""} \cup FeatureIds : SetColor(value)
    \/ \E c \in pending : CompareThen(c)

SpecCompareTab == InitSession /\ [][NextCompareTab]_vars

\* The tabs opened under SpecLensTab.
LensTabs == {"overview", "timeline"}

\* SpecLensTab: the user works with the selects of the Time lens tab on the
\* feature the load selected.
NextLensTab ==
    \/ NextLoad
    \/ \E id \in LensTabs : SetTab(id)
    \/ LensEffect
    \/ \E target \in { Targets[i] : i \in 1..Len(Targets) } : SetLensTarget(target)
    \/ \E i \in 1..Len(ROLLING_WINDOWS) : SetLensWindow(ROLLING_WINDOWS[i])
    \/ \E order \in OrderOptions : SetLensOrder(order)
    \/ \E c \in pending : TimeLensThen(c)

SpecLensTab == InitSession /\ [][NextLensTab]_vars

----------------------------------------------------------------------------
(* dataService.ts: a call whose request() throws *)

ErrorSetOnRejection(current) == Some("Request failed")

\* The hook's error state after the promise of fetchCompare, fetchTimeLens or
\* changeSampleSize has rejected: these chains have a then and no catch, so
\* nothing is set.
ErrorAfterRejection(current) == current

\* request() throws new Error(message) (the response is not ok) or fetch fails:
\* the promise of the call rejects and its then callback does not run.
Reject(c) ==
    /\ c \in pending
    /\ pending' = pending \ {c}
    /\ rejected' = rejected \cup {c.kind}
    /\ error' = ErrorAfterRejection(error)
    /\ UNCHANGED <<overview, summary, activeFeature, tab, isLoading, activeTarget,
                   serviceVars, harnessVars, detailsVars,
                   compareConfig, compareSeries, timeLens, timeOrder, lensTarget,
                   lensWindow, lensOrder, lensEffectPending, compareSample,
                   timeLensSample>>

\* The tabs opened under SpecFaults: those that make requests.
RequestTabs == {"compare", "timeline"}

\* SpecFaults: the user goes between the Compare and Time lens tabs, changes
\* the chart type and the sample size, and any service call may fail.
NextFaults ==
    \/ NextLoad
    \/ \E id \in RequestTabs : SetTab(id)
    \/ CompareDefault
    \/ \E chartType \in {"scatter", "distribution"} : SetChartType(chartType)
    \/ LensEffect
    \/ \E direction \in {"increase", "decrease"} : adjustSample(direction)
    \/ \E c \in pending : CompareThen(c)
    \/ \E c \in pending : TimeLensThen(c)
    \/ \E c \in pending : SampleThen(c)
    \/ \E c \in pending : Reject(c)

SpecFaults == InitSession /\ [][NextFaults]_vars

----------------------------------------------------------------------------
(* The backend behind dataService.ts: POST /dataset/sample *)

MaxServerSample == 10000

\* The Sample Manager's setSample(size): size clamped to [minSample, rows].
setSample(size) == Max(MIN_SAMPLE, Min(size, MOCK_ROWS))

\* By how much (in hundredths) a statistic over the working sample of `size`
\* rows differs from the one over the sample of the first summary: statistics
\* are computed on the working sample, and another subset gives other values.
Drift(size) == (size - MOCK_SAMPLE_SIZE) \div MIN_SAMPLE

\* The association statistics of a column over the working sample of `size` rows.
StatsOnSample(stats, size) ==
    IF stats = NoStats THEN NoStats
    ELSE Stats(Get(stats.pearson) + Drift(size), Get(stats.spearman) + Drift(size),
               Get(stats.distance) + Drift(size))

\* The columns with their statistics over the working sample of `size` rows.
SampledColumns(columns, size) ==
    [i \in 1..Len(columns) |->
        [columns[i] EXCEPT !.stats =
            [t \in 1..Len(columns[i].stats) |-> StatsOnSample(columns[i].stats[t], size)]]]

\* The DatasetSummary the backend answers with while its sample has `size` rows.
EngineSummary(columns, target, size) ==
    [SummaryOf(SampledColumns(columns, size), target) EXCEPT !.sampleSize = size]

\* The backend handles POST /dataset/sample {delta}: it changes the working
\* sample and answers with the summary over the new sample, which the call
\* carries from then on (sample = 0: the request has not been handled yet).
ServeSample(c) ==
    /\ c \in pending
    /\ c.kind = "sample"
    /\ c.sample = 0
    /\ setSample(serverSample + c.delta) <= MaxServerSample
    /\ serverSample' = setSample(serverSample + c.delta)
    /\ pending' = (pending \ {c}) \cup {[c EXCEPT !.sample = serverSample']}
    /\ UNCHANGED <<dataset, hookVars, activeTarget, harnessVars, detailsVars, rejected,
                   compareConfig, compareSeries, timeLens, timeOrder, lensTarget,
                   lensWindow, lensOrder, lensEffectPending, compareSample,
                   timeLensSample>>

\* The response arrives: .then((updated) => setSummary(updated))
SampleResponse(c) ==
    /\ c \in pending
    /\ c.kind = "sample"
    /\ c.sample # 0
    /\ summary' = Some(EngineSummary(dataset, SummaryTarget, c.sample))
    /\ pending' = pending \ {c}
    /\ UNCHANGED <<overview, activeFeature, tab, isLoading, error, activeTarget,
                   serviceVars, harnessVars, detailsVars, rejected,
                   compareConfig, compareSeries, timeLens, timeOrder, lensTarget,
                   lensWindow, lensOrder, lensEffectPending, compareSample,
                   timeLensSample>>

\* SpecBackend: the hook against the backend; the user inspects features and
\* changes the sample size, and a request may fail.
NextBackend ==
    \/ NextLoad
    \/ \E f \in FeatureChoices : SetActiveFeature(f)
    \/ \E direction \in {"increase", "decrease"} : adjustSample(direction)
    \/ \E c \in pending : ServeSample(c)
    \/ \E c \in pending : SampleResponse(c)
    \/ \E c \in pending : Reject(c)

SpecBackend == InitSession /\ [][NextBackend]_vars

\* The promise of fetchOverview() settles, and its finally callback runs.
LoadFairness ==
    /\ WF_vars(OverviewThen \/ OverviewCatch)
    /\ WF_vars(OverviewFinally)

SpecBackendLive == SpecBackend /\ LoadFairness

----------------------------------------------------------------------------
(* Properties of rebinHistogram, checked under SpecRebin *)

\* The rebinHistogram call has returned or thrown.
RebinDone == call.fn = "rebinHistogram" /\ ret # Pending

\* The output bins of the returned call.
RebinOut == Get(ret).value

\* The number of input bins output bin k covers.
GroupSize(out, k) == out[k].endIndex - out[k].startIndex + 1

\* C1 as stated: for every call (any binsCount) the output values sum to the
\* input values.
C1_LosslessAnyBinsCount ==
    RebinDone =>
        /\ ~Get(ret).threw
        /\ SumValues(RebinOut) = SumValues(call.bins)

\* C1 (amended): for every call with binsCount >= 1 the sum of the output bins'
\* values equals the sum of the input bins' values; with binsCount = 0 the
\* output is empty, whatever the input holds.
C1_Lossless ==
    RebinDone =>
        /\ ~Get(ret).threw
        /\ call.binsCount >= 1 => SumValues(RebinOut) = SumValues(call.bins)
        /\ call.binsCount < 1 => RebinOut = <<>>

\* A call that merged several non-zero input bins into one output bin.
C1_Witness ==
    /\ RebinDone
    /\ call.binsCount >= 1
    /\ Len(call.bins) > call.binsCount
    /\ SumValues(call.bins) >= 2
    /\ \E k \in 1..Len(RebinOut) : RebinOut[k].value >= 2

\* The ranges of `out`, in order, start at offset, end at offset + length - 1
\* and each begins one past the end of the one before.
PartitionsInput(out, offset, length) ==
    /\ out # <<>>
    /\ out[1].startIndex = offset
    /\ out[Len(out)].endIndex = offset + length - 1
    /\ \A k \in 1..Len(out) : out[k].startIndex <= out[k].endIndex
    /\ \A k \in 1..(Len(out) - 1) : out[k + 1].startIndex = out[k].endIndex + 1

\* C2 as stated: for every call with non-empty bins the output ranges
\* partition offset .. offset + len(bins) - 1.
C2_PartitionAnyBinsCount ==
    (RebinDone /\ call.bins # <<>>) =>
        /\ ~Get(ret).threw
        /\ PartitionsInput(RebinOut, call.offset, Len(call.bins))

\* C2 (amended): for every call with non-empty bins and binsCount >= 1 the
\* output ranges, in output order, start at offset, end at
\* offset + len(bins) - 1, and each begins one past the end of the previous
\* one; with binsCount = 0 there is no output bin at all.
C2_Partition ==
    (RebinDone /\ call.bins # <<>>) =>
        /\ ~Get(ret).threw
        /\ call.binsCount >= 1 =>
               PartitionsInput(RebinOut, call.offset, Len(call.bins))
        /\ call.binsCount < 1 => RebinOut = <<>>

\* A call with a non-zero offset whose output has several ranges, one of
\* them covering more than one input bin.
C2_Witness ==
    /\ RebinDone
    /\ call.offset > 0
    /\ Len(RebinOut) >= 3
    /\ \E k \in 1..Len(RebinOut) : GroupSize(RebinOut, k) >= 2

\* C4: the call never returns more than min(binsCount, len(bins)) bins, every
\* output bin covers at least one input bin, and for non-empty bins and
\* binsCount >= 1 it returns exactly min(binsCount, len(bins)) bins.
C4_BinBudget ==
    RebinDone =>
        /\ ~Get(ret).threw
        /\ Len(RebinOut) <= Min(call.binsCount, Len(call.bins))
        /\ \A k \in 1..Len(RebinOut) :
              /\ GroupSize(RebinOut, k) >= 1
              /\ RebinOut[k].startIndex >= call.offset
              /\ RebinOut[k].endIndex <= call.offset + Len(call.bins) - 1
        /\ (call.bins # <<>> /\ call.binsCount >= 1) =>
              Len(RebinOut) = Min(call.binsCount, Len(call.bins))

\* A call asking for fewer bins than the input holds.
C4_Witness ==
    /\ RebinDone
    /\ call.binsCount >= 2
    /\ Len(call.bins) > call.binsCount
    /\ Len(RebinOut) = call.binsCount

\* C5 as stated: every group except the last holds the integer quotient
\* len(bins) / target input bins, so only the last can be larger.
C5_LastAbsorbsRemainder ==
    (RebinDone /\ call.bins # <<>> /\ call.binsCount >= 1) =>
        LET target == Min(call.binsCount, Len(call.bins))
        IN  /\ ~Get(ret).threw
            /\ \A k \in 1..(Len(RebinOut) - 1) :
                  GroupSize(RebinOut, k) = Len(call.bins) \div target

\* C5 (amended): with target = min(binsCount, len(bins)) groups, every group,
\* the last included, holds either the integer quotient len(bins) / target or
\* one more input bins: the remainder is spread over the groups by rounding
\* and is not absorbed by the last group alone.
C5_RemainderSpread ==
    (RebinDone /\ call.bins # <<>> /\ call.binsCount >= 1) =>
        LET target == Min(call.binsCount, Len(call.bins))
            quotient == Len(call.bins) \div target
        IN  /\ ~Get(ret).threw
            /\ \A k \in 1..Len(RebinOut) :
                  GroupSize(RebinOut, k) \in {quotient, quotient + 1}

\* A call whose first group is larger than the quotient although it is not
\* the last group.
C5_Witness ==
    /\ RebinDone
    /\ call.binsCount >= 1
    /\ Len(RebinOut) >= 2
    /\ GroupSize(RebinOut, 1) > Len(call.bins) \div Len(RebinOut)

----------------------------------------------------------------------------
(* Properties of FeatureDetails, checked under SpecDetails *)

ZoomStep ==
    /\ feature' = feature
    /\ viewRange' # Null
    /\ viewRange' # viewRange

C7_EffectiveRangeInBounds ==
    LET length == Len(originalBins)
    IN  /\ 0 <= effectiveRange.start
        /\ effectiveRange.start <= effectiveRange.end
        /\ effectiveRange.end <= Max(length - 1, 0)
        /\ (viewRange = Null \/ length = 0) =>
              effectiveRange = [start |-> 0, end |-> Max(length - 1, 0)]

\* A view range that reaches past the end of the histogram now on display,
\* so that clamping has acted.
C7_Witness ==
    /\ viewRange # Null
    /\ Len(originalBins) > 0
    /\ Get(viewRange).start > Len(originalBins) - 1
    /\ effectiveRange.start = Len(originalBins) - 1

\* C27: a change of the feature's id schedules the effect, and while the
\* effect is scheduled the only step is the effect itself, which sets the bin
\* count to 24 and the view range to null, so that the feature is shown over
\* its full range before the user acts again; a change of bin count made by
\* the user leaves the view range as it is, and a reset of the view range
\* leaves the bin count as it is.
C27_ResetOnFeatureChange ==
    [][/\ FeatureId(feature') # FeatureId(feature) => effectPending'
       /\ effectPending =>
            /\ feature' = feature
            /\ ~effectPending'
            /\ binCount' = DEFAULT_BIN_COUNT
            /\ viewRange' = Null
            /\ aggregatedBins' = AggregatedBins(feature, Null, DEFAULT_BIN_COUNT)
       /\ (~effectPending /\ binCount' # binCount) => viewRange' = viewRange
       /\ (~effectPending /\ viewRange # Null /\ viewRange' = Null) =>
            binCount' = binCount]_vars

\* Another feature has been given to a view that was zoomed under a bin count
\* other than the default: the reset is due.
C27_Witness ==
    /\ effectPending
    /\ feature # Null
    /\ Len(originalBins) > 0
    /\ viewRange # Null
    /\ binCount # DEFAULT_BIN_COUNT

\* The datazoom event that spans the first through the last of the bins on
\* display, its ends given as indices or as labels.
FullSpanEvent(batched, form) ==
    LET last == Len(aggregatedBins)
    IN  IF form = "number"
        THEN DataZoomEvent(batched, Num(0), Num(last - 1))
        ELSE DataZoomEvent(batched, Str(aggregatedBins[1].label),
                           Str(aggregatedBins[last].label))

\* The range of original bins now on display.
DisplayedRange ==
    [start |-> aggregatedBins[1].startIndex,
     end |-> aggregatedBins[Len(aggregatedBins)].endIndex]

\* C28: a datazoom event that spans the first through the last displayed bin
\* raises no error and leaves the displayed bins as they are; the view range
\* stays the same or goes from null to the range on display, and it is then
\* the range such an event asks for, so that repeating the event changes no
\* state.
C28_FullSpanIsFixpoint ==
    [][\A batched \in BOOLEAN, form \in {"number", "string"} :
         (Len(aggregatedBins) > 0 /\ handleDataZoom(FullSpanEvent(batched, form))) =>
            /\ thrown' = thrown
            /\ aggregatedBins' = aggregatedBins
            /\ \/ viewRange' = viewRange
               \/ viewRange = Null
            /\ viewRange' # Null => Get(viewRange') = DisplayedRange]_vars

\* The datazoom value names none of the bins on display: it is missing, a
\* label that no displayed bin carries, or an index outside 0..displayed-1.
NamesNoBin(value) ==
    \/ value = Undef
    \/ value.type = "string" /\ FindIndex(aggregatedBins, value.str) < 0
    \/ value.type = "number" /\ (value.num < 0 \/ value.num >= Len(aggregatedBins))

\* C29: a datazoom event that does not identify displayed bins (none is
\* displayed, or one of its ends names no displayed bin) leaves the view
\* range unchanged and raises no error.
C29_StrayEventIgnored ==
    [][\A batched \in BOOLEAN :
         \A startValue \in DataZoomValues(aggregatedBins),
            endValue \in DataZoomValues(aggregatedBins) :
              (/\ SameForm(startValue, endValue)
               /\ \/ Len(aggregatedBins) = 0
                  \/ NamesNoBin(startValue)
                  \/ NamesNoBin(endValue)
               /\ ~thrown
               /\ handleDataZoom(DataZoomEvent(batched, startValue, endValue))) =>
                  /\ viewRange' = viewRange
                  /\ ~thrown']_vars

----------------------------------------------------------------------------
(* Properties of clampRange, checked under SpecClamp *)

\* The clampRange call has returned.
ClampDone == call.fn = "clampRange" /\ ret # Pending

\* v clamped into [0, length - 1].
ClampedInto(v, length) ==
    IF v < 0 THEN 0 ELSE IF v > length - 1 THEN length - 1 ELSE v

\* C8 as stated: for a non-empty histogram and any requested view [s, e] the
\* result is {start: min(cs, ce), end: max(cs, ce)}, cs and ce being s and e
\* clamped into [0, len - 1].
C8_ClampAndOrder ==
    (ClampDone /\ call.length > 0 /\ call.range # Null) =>
        LET cs == ClampedInto(Get(call.range).start, call.length)
            ce == ClampedInto(Get(call.range).end, call.length)
        IN  Get(ret) = [start |-> Min(cs, ce), end |-> Max(cs, ce)]

\* C8 (amended): for a non-empty histogram and any requested view [s, e] the
\* result is {start: cs, end: max(cs, ce)}: both ends are clamped into
\* [0, len - 1], and when the clamped end lies below the clamped start the end
\* is raised to the start (the view collapses to [cs, cs]); the ends are never
\* swapped.
C8_ClampAndCollapse ==
    (ClampDone /\ call.length > 0 /\ call.range # Null) =>
        LET cs == ClampedInto(Get(call.range).start, call.length)
            ce == ClampedInto(Get(call.range).end, call.length)
        IN  Get(ret) = [start |-> cs, end |-> IF ce < cs THEN cs ELSE ce]

\* A call with an inverted view that lies inside the histogram.
C8_Witness ==
    /\ ClampDone
    /\ call.range # Null
    /\ Get(call.range).start > Get(call.range).end
    /\ Get(call.range).end >= 0
    /\ Get(call.range).start <= call.length - 1
    /\ Get(ret).start = Get(ret).end

----------------------------------------------------------------------------
(* Properties of changeSampleSize, checked under SpecSample *)

\* Some changeSampleSize calls have been answered.
SampleDone == call.fn = "changeSampleSize" /\ ret # <<>>

\* C11: after any sequence of changeSampleSize calls, every call is answered
\* with a summary (none is rejected) whose sampleSize is at least 500, and a
\* delta that would take the size below 500 is answered with exactly 500.
C11_SampleFloor ==
    SampleDone =>
        \A k \in 1..Len(ret) :
            /\ ~ret[k].threw
            /\ ret[k].value.sampleSize >= MIN_SAMPLE
            /\ mockDataset.sampleSize + call.deltas[k] < MIN_SAMPLE =>
                  ret[k].value.sampleSize = MIN_SAMPLE

\* A large negative delta has been answered with the floor.
C11_Witness ==
    /\ SampleDone
    /\ \E k \in 1..Len(ret) :
          /\ call.deltas[k] = 0 - BigDelta
          /\ ret[k].value.sampleSize = MIN_SAMPLE

\* C12: after any sequence of changeSampleSize calls, the sampleSize of every
\* returned summary is at most the rows of that summary.
C12_SampleAtMostRows ==
    SampleDone =>
        \A k \in 1..Len(ret) : ret[k].value.sampleSize <= ret[k].value.rows

RECURSIVE AppliedInTurn(_, _)
\* The size reached from `size` by applying the deltas one after the other,
\* each result raised to the floor as changeSampleSize raises it.
AppliedInTurn(size, deltas) ==
    IF deltas = <<>> THEN size
    ELSE AppliedInTurn(NewSample(size, Head(deltas)), Tail(deltas))

\* C13: the k-th call is answered with the size reached by applying the first
\* k deltas in turn to the initial sample size, so that two successive
\* increases raise the sample size twice.
C13_DeltasAccumulate ==
    SampleDone =>
        \A k \in 1..Len(ret) :
            ret[k].value.sampleSize =
                AppliedInTurn(MOCK_SAMPLE_SIZE, SubSeq(call.deltas, 1, k))

----------------------------------------------------------------------------
(* Properties of createSeries, checked under SpecCompare *)

\* The createSeries call has returned.
CompareDone == call.fn = "createSeries" /\ ret # Pending

\* A field that is null or the empty string holds no selection.
Unset(v) == v = Null \/ v = Some("")

\* A field createSeries needs for the chart type is unset.
RequiredUnset(config) ==
    Unset(config.x) \/ (config.chartType = "scatter" /\ Unset(config.y))

\* C15: createSeries returns (it does not throw) an empty list exactly when
\* x is unset, or the chart type is scatter and y is unset; otherwise it
\* returns exactly one series.
C15_EmptyIffRequiredUnset ==
    CompareDone =>
        /\ ~Get(ret).threw
        /\ RequiredUnset(call.config) <=> Get(ret).value = <<>>
        /\ ~RequiredUnset(call.config) => Len(Get(ret).value) = 1

\* A scatter call with x set and y unset has returned no series.
C15_Witness ==
    /\ CompareDone
    /\ call.config.chartType = "scatter"
    /\ ~Unset(call.config.x)
    /\ Unset(call.config.y)
    /\ Get(ret).value = <<>>

\* The number of points of each series, in order.
PointCounts(series) == [k \in 1..Len(series) |-> series[k].points]

\* C16: a call with the same config but any other color returns as many
\* series, with as many points each.
C16_ColorKeepsRows ==
    CompareDone =>
        \A color \in FieldInputs :
            PointCounts(createSeries([call.config EXCEPT !.color = color]))
                = PointCounts(Get(ret).value)

\* A call with a color has returned a series.
C16_Witness ==
    /\ CompareDone
    /\ Truthy(call.config.color)
    /\ Len(Get(ret).value) = 1
    /\ Get(ret).value[1].points > 0

----------------------------------------------------------------------------
(* Properties of fetchTimeLens, checked under SpecTimeLens *)

\* The promise of the fetchTimeLens call has settled.
TimeLensDone == call.fn = "fetchTimeLens" /\ ret # Pending

\* C17: for a window w with 1 <= w <= n, n being the rows of the series, the
\* correlation series has exactly n - w + 1 points, and with a null orderField
\* their keys are in row order.
C17_OnePointPerFullWindow ==
    (TimeLensDone /\ 1 <= call.window /\ call.window <= MOCK_POINTS) =>
        /\ ~Get(ret).threw
        /\ LET values == Get(ret).value.correlation.values
           IN  /\ Len(values) = MOCK_POINTS - call.window + 1
               /\ call.orderField = Null =>
                     \E first \in 1..MOCK_POINTS :
                         \A k \in 1..Len(values) :
                             values[k].key = ToString(first + k - 1)

\* C18: a request with a window of zero or less, or greater than the sample
\* size, is rejected, and no series is produced for it.
C18_BadWindowRejected ==
    (TimeLensDone /\ (call.window <= 0 \/ call.window > MOCK_SAMPLE_SIZE)) =>
        Get(ret).threw

----------------------------------------------------------------------------
(* Properties of request, checked under SpecRequest *)

\* The request call has settled.
RequestDone == call.fn = "request" /\ ret # Pending

\* The body carries a detail that is neither null nor undefined.
DetailGiven(body) == CarriesDetail(body) /\ body.detail # Undef

\* `Request failed with status ${status}`
StatusFallback(status) == "Request failed with status " \o ToString(status)

\* C19 as stated: for every response that is not ok the call rejects with an
\* Error whose message is not empty: the detail of the body when it gives a
\* non-empty one, else the status text when there is one, else
\* 'Request failed with status N'.
C19_DetailThenStatusText ==
    (RequestDone /\ ~call.response.ok) =>
        LET response == call.response
            detail == IF DetailGiven(response.body) THEN JSString(response.body.detail)
                      ELSE ""
        IN  /\ Get(ret).threw
            /\ Get(ret).value # ""
            /\ Get(ret).value =
                 IF detail # "" THEN detail
                 ELSE IF response.statusText # "" THEN response.statusText
                 ELSE StatusFallback(response.status)

\* C19 (amended): for every response that is not ok, whatever the path and the
\* status, the call rejects with an Error whose message is not empty.  When
\* the body gives a detail (neither null nor undefined) the message is the
\* detail as a string, or 'Request failed with status N' if that string is
\* empty, whatever the status text; when the body gives no detail the message
\* is the status text, or 'Request failed with status N' if that is empty.
C19_NonOkRejects ==
    (RequestDone /\ ~call.response.ok) =>
        LET response == call.response
        IN  /\ Get(ret).threw
            /\ Get(ret).value # ""
            /\ Get(ret).value =
                 IF DetailGiven(response.body)
                 THEN IF JSString(response.body.detail) # ""
                      THEN JSString(response.body.detail)
                      ELSE StatusFallback(response.status)
                 ELSE IF response.statusText # "" THEN response.statusText
                 ELSE StatusFallback(response.status)

\* A response that is not ok, with a status text and an empty detail, has
\* been rejected with the fallback message.
C19_Witness ==
    /\ RequestDone
    /\ ~call.response.ok
    /\ call.response.statusText # ""
    /\ DetailGiven(call.response.body)
    /\ JSString(call.response.body.detail) = ""
    /\ Get(ret) = ThrowError(StatusFallback(call.response.status))

----------------------------------------------------------------------------
(* Properties of the series held by useDataset, checked under SpecSession *)

\* The shell is rendered, no service call is under way and no effect is due.
Quiescent == ShellRendered /\ pending = {} /\ ~EffectDue

\* C20: once the client is quiescent, the compare series it holds and the
\* time-lens data it holds were computed for the sample size its summary
\* shows: after a completed sample-size change they are results for the new
\* sample, not for the previous one.
C20_SeriesOfCurrentSample ==
    Quiescent =>
        /\ compareSeries # <<>> => compareSample = Some(Get(summary).sampleSize)
        /\ timeLens # Null => timeLensSample = Some(Get(summary).sampleSize)

----------------------------------------------------------------------------
(* Properties of the sample-size changes, checked under SpecBackend *)

\* Every sample-size change issued has been answered: none is in flight and
\* none has failed.
SampleChangesResolved ==
    /\ \A c \in pending : c.kind # "sample"
    /\ "sample" \notin rejected

\* C22: once all the sample-size changes in flight have resolved, in whatever
\* order their responses arrived, the summary the hook holds shows the
\* backend's final sample size (it is the response to the last change).
C22_SummaryOfFinalSample ==
    (summary # Null /\ SampleChangesResolved) =>
        Get(summary).sampleSize = serverSample

\* The feature of the current summary with the id of the inspected feature.
CurrentFeature(id) ==
    LET features == Get(summary).features
    IN  features[CHOOSE i \in 1..Len(features) : features[i].id = id]

\* C25: in every state of the hook, activeFeature is null or is the feature
\* with the same id as the current summary carries it: after a sample-size
\* change has replaced the summary, the statistics shown for the inspected
\* feature are those of the new summary.
C25_ActiveFeatureOfCurrentSummary ==
    (summary # Null /\ activeFeature # Null) =>
        Get(activeFeature) = CurrentFeature(Get(activeFeature).id)

----------------------------------------------------------------------------
(* Properties of the overview load, checked under SpecBackendLive *)

\* The load succeeded: it left a summary and no error.
Loaded == summary # Null /\ error = Null

\* The load failed: it left an error and no summary.
LoadFailed == summary = Null /\ error # Null

\* C26: the overview load terminates with isLoading = false, and isLoading
\* never becomes true again; when the promise has settled, either the summary
\* is set with activeFeature its first feature and no error, or the error is
\* set with no summary and no active feature; from then on exactly one of
\* summary and error is set (no sample-size change is issued or answered
\* while there is no summary), so the two are never both set.
C26_LoadSettles ==
    /\ <>(~isLoading)
    /\ [][~isLoading => ~isLoading']_vars
    /\ [](overview = "pending" => (isLoading /\ summary = Null /\ error = Null))
    /\ [](overview = "settled" =>
            \/ (Loaded /\ activeFeature = Some(Get(summary).features[1]))
            \/ (LoadFailed /\ activeFeature = Null))
    /\ [](~isLoading => (Loaded \/ LoadFailed))
    /\ [](summary = Null => (pending = {} /\ rejected = {}))
    /\ [](~(summary # Null /\ error # Null))

\* The load has failed and is over: the error is set and there is no summary.
C26_Witness ==
    /\ ~isLoading
    /\ overview = "done"
    /\ LoadFailed
    /\ activeFeature = Null

----------------------------------------------------------------------------
(* Properties of failed requests, checked under SpecFaults *)

\* A step in which a compare, time-lens or sample-change request is seen to
\* fail: a kind of call joins the rejected ones.
FailureStep == rejected' # rejected

\* C30: a step in which a compare, time-lens or sample-change request fails
\* leaves compareSeries, timeLens and summary as they were and leaves error
\* null; error is only ever set while the overview load is pending.
C30_FailureKeepsResults ==
    [][/\ FailureStep =>
            /\ compareSeries' = compareSeries
            /\ timeLens' = timeLens
            /\ summary' = summary
            /\ error = Null
            /\ error' = Null
       /\ error' # error => (overview = "pending" /\ pending = {})]_vars

\* Requests of all three kinds have failed while the hook held a compare
\* series, time-lens data and a summary changed by an earlier sample change.
C30_Witness ==
    /\ rejected = {"compare", "timeLens", "sample"}
    /\ compareSeries # <<>>
    /\ timeLens # Null
    /\ summary # Null
    /\ Get(summary).sampleSize # MOCK_SAMPLE_SIZE
    /\ error = Null

----------------------------------------------------------------------------
(* Properties of the compare requests, checked under SpecCompareTab *)

\* No fetchCompare call is under way and CompareTab's effect is not due.
CompareSettled ==
    /\ ~CompareDefaultDue
    /\ \A c \in pending : c.kind # "compare"

\* C23: once no compare request is in flight, compareSeries is the series the
\* service returns for the current compareConfig, in whatever order the
\* responses to the refreshCompare calls arrived.
C23_SeriesOfCurrentConfig ==
    CompareSettled => compareSeries = createSeries(compareConfig)

----------------------------------------------------------------------------
(* Properties of the time-lens requests, checked under SpecLensTab *)

\* No fetchTimeLens call is under way and TimeLensTab's effect is not due.
LensSettled ==
    /\ ~lensEffectPending
    /\ \A c \in pending : c.kind # "timeLens"

\* C24: once no time-lens request is in flight, the timeLens data held is the
\* response to the most recent request: its correlation.orderField equals
\* timeOrder, and while TimeLensTab shows a feature it is the response for
\* the feature, target, window and order the tab shows (the arguments of the
\* tab's last onRequest call).
C24_LensOfLatestRequest ==
    (LensSettled /\ timeLens # Null) =>
        /\ Get(timeLens).correlation.orderField = timeOrder
        /\ (tab = "timeline" /\ activeFeature # Null) =>
              Get(timeLens) =
                  fetchTimeLens(Get(activeFeature).id, lensTarget, lensWindow,
                      IF lensOrder = DEFAULT_ORDER THEN Null ELSE Some(lensOrder)).value

----------------------------------------------------------------------------
(* Properties of the correlation records, checked under SpecApp *)

\* The names of the numeric features of the summary, in order.
NumericFeatureNames ==
    LET numeric == NumericColumns(Get(summary).features)
    IN  [i \in 1..Len(numeric) |-> numeric[i].name]

\* C9: the list of correlation records holds exactly one record per numeric
\* feature, and none for a categorical or datetime feature.
C9_OneRecordPerNumericFeature ==
    summary # Null =>
        [i \in 1..Len(correlations) |-> correlations[i].feature] = NumericFeatureNames

\* C10: the correlation records the Targets tab shows are those computed
\* against the target its select shows: every numeric feature's record holds
\* that feature's statistics against the selected target.
C10_RecordsOfSelectedTarget ==
    (ShellRendered /\ tab = "targets") =>
        LET computed == Correlate(dataset, ShownTarget)
        IN  \A i \in 1..Len(computed) :
              \E k \in 1..Len(correlations) :
                  /\ correlations[k].feature = computed[i].feature
                  /\ correlations[k].pearson = OrZero(computed[i].pearson)
                  /\ correlations[k].spearman = OrZero(computed[i].spearman)
                  /\ correlations[k].distance = OrZero(computed[i].distance)

====
